---- MODULE Spec2Model ----
(***************************************************************************)
(* A model of openwrite.grammar_checker.GrammarChecker.check: the          *)
(* rule-based grammar checker of OpenWrite.  A text is a sequence of       *)
(* characters (one-character strings); offsets are Python's 0-based,       *)
(* half-open offsets.  The regular expressions of the source are modelled  *)
(* by the matches re.finditer produces (leftmost, greedy, non-overlapping, *)
(* with the backtracking the patterns need).                               *)
(***************************************************************************)
EXTENDS Integers, Sequences, FiniteSets, TLC

VARIABLES text, pc, issues, sentences, idx, result

vars == <<text, pc, issues, sentences, idx, result>>

(***************************************************************************)
(* Characters and str methods                                              *)
(***************************************************************************)
LowerLetters ==
    <<"a","b","c","d","e","f","g","h","i","j","k","l","m",
      "n","o","p","q","r","s","t","u","v","w","x","y","z">>

UpperLetters ==
    <<"A","B","C","D","E","F","G","H","I","J","K","L","M",
      "N","O","P","Q","R","S","T","U","V","W","X","Y","Z">>

LowerSet == {LowerLetters[i] : i \in DOMAIN LowerLetters}

UpperSet == {UpperLetters[i] : i \in DOMAIN UpperLetters}

\* [A-Za-z]; str.isalpha on the ASCII characters of the model
Letters == LowerSet \cup UpperSet

Digits == {"0","1","2","3","4","5","6","7","8","9"}

\* \w of the re module
WordChars == Letters \cup Digits \cup {"_"}

\* \s of the re module, and what str.strip() removes
Whitespace == {" ", "\n", "\t"}

\* the characters of [.!?]
Terminators == {".", "!", "?"}

\* the argument of stripped.rstrip("\"'...)"): the straight quotes, the two
\* curly closing quotes (written rdquo and rsquo here) and the parenthesis
ClosingChars == {"\"", "'", "rdquo", "rsquo", ")"}

\* [A-Za-z']
TokenChars == Letters \cup {"'"}

isalpha(c) == c \in Letters

isupper(c) == c \in UpperSet

LowerMap ==
    [c \in UpperSet |-> LowerLetters[CHOOSE i \in DOMAIN UpperLetters : UpperLetters[i] = c]]

\* str.lower, character by character
lowerchar(c) == IF c \in UpperSet THEN LowerMap[c] ELSE c

lower(s) == [i \in 1..Len(s) |-> lowerchar(s[i])]

Min(a, b) == IF a < b THEN a ELSE b

Max(a, b) == IF a > b THEN a ELSE b

\* s[a:b] for 0 <= a <= b <= len(s)
Slice(s, a, b) == SubSeq(s, a + 1, b)

\* the least p in lo..hi with P[p], or -1 when there is none: the leftmost
\* offset where a pattern matches, P[p] telling whether it matches at p
First(lo, hi, P) ==
    IF \E p \in lo..hi : P[p]
    THEN CHOOSE p \in lo..hi : P[p] /\ \A q \in lo..(p - 1) : ~P[q]
    ELSE -1

\* the first offset >= pos whose character is not in S (len(s) if none)
RunEnd(s, pos, S) ==
    LET stop == First(pos, Len(s) - 1, [k \in pos..(Len(s) - 1) |-> s[k + 1] \notin S])
    IN  IF stop = -1 THEN Len(s) ELSE stop

\* the first offset >= pos whose character is in S (len(s) if none)
RunEndNot(s, pos, S) ==
    LET stop == First(pos, Len(s) - 1, [k \in pos..(Len(s) - 1) |-> s[k + 1] \in S])
    IN  IF stop = -1 THEN Len(s) ELSE stop

\* len(s) - len(s.lstrip())
LeadingWs(s) == RunEnd(s, 0, Whitespace)

\* len(s) - len(s.rstrip(chars))
TrailingIn(s, S) ==
    LET keep == {k \in 1..Len(s) : s[k] \notin S}
    IN  IF keep = {} THEN Len(s)
        ELSE Len(s) - (CHOOSE k \in keep : \A j \in keep : j <= k)

TrailingWs(s) == TrailingIn(s, Whitespace)

lstrip(s) == Slice(s, LeadingWs(s), Len(s))

rstrip(s) == Slice(s, 0, Len(s) - TrailingWs(s))

rstripchars(s, S) == Slice(s, 0, Len(s) - TrailingIn(s, S))

strip(s) == lstrip(rstrip(s))

\* \b at offset p of s
WordBoundary(s, p) ==
    (p > 0 /\ s[p] \in WordChars) # (p < Len(s) /\ s[p + 1] \in WordChars)

\* the padding default of _issue_context
padding == 30

\* the word count above which a sentence is long
long_sentence_limit == 40

\* snippet.replace("\n", " ")
Flatten(c) == IF c = "\n" THEN " " ELSE c

\* issue_context without the replacement of newlines (a variant that C8_Context
\* must tell from it)
issue_context_keep_newlines(source, start, end) ==
    LET context_start == Max(0, start - padding)
        context_end   == Min(Len(source), end + padding)
    IN  [i \in 1..(context_end - context_start) |-> source[context_start + i]]

issue_context(source, start, end) ==
    LET context_start == Max(0, start - padding)
        context_end   == Min(Len(source), end + padding)
    IN  [i \in 1..(context_end - context_start) |-> Flatten(source[context_start + i])]

GrammarIssue(rule, message, start, end, context) ==
    [rule |-> rule, message |-> message, start |-> start, end |-> end,
     context |-> context]

(***************************************************************************)
(* The closed lexical sets (lowercase words as character sequences)        *)
(***************************************************************************)
present_auxiliaries ==
    { <<"a","m">>, <<"i","s">>, <<"a","r","e">>, <<"h","a","s">>, <<"h","a","v","e">>,
      <<"d","o","e","s">>, <<"d","o">> }

past_auxiliaries ==
    { <<"w","a","s">>, <<"w","e","r","e">>, <<"h","a","d">>, <<"d","i","d">> }

present_base_verbs ==
    { <<"w","a","l","k">>, <<"t","a","l","k">>, <<"r","u","n">>, <<"g","o">>,
      <<"c","o","m","e">>, <<"m","a","k","e">>, <<"t","a","k","e">>, <<"w","r","i","t","e">>,
      <<"s","p","e","a","k">>, <<"t","h","i","n","k">>, <<"k","n","o","w">>,
      <<"f","e","e","l">>, <<"s","e","e">>, <<"e","a","t">>, <<"g","i","v","e">>,
      <<"u","s","e">>, <<"f","i","n","d">>, <<"t","e","l","l">>, <<"l","o","o","k">>,
      <<"w","o","r","k">>, <<"l","i","v","e">>, <<"l","o","v","e">>, <<"l","i","k","e">>,
      <<"n","e","e","d">>, <<"w","a","n","t">>, <<"c","a","l","l">>, <<"a","s","k">>,
      <<"p","l","a","y">>, <<"m","o","v","e">>, <<"c","r","e","a","t","e">>,
      <<"s","t","u","d","y">>, <<"b","u","i","l","d">>, <<"l","e","a","r","n">> }

present_s_verbs ==
    { <<"w","a","l","k","s">>, <<"t","a","l","k","s">>, <<"r","u","n","s">>,
      <<"g","o","e","s">>, <<"c","o","m","e","s">>, <<"m","a","k","e","s">>,
      <<"t","a","k","e","s">>, <<"w","r","i","t","e","s">>, <<"s","p","e","a","k","s">>,
      <<"t","h","i","n","k","s">>, <<"k","n","o","w","s">>, <<"f","e","e","l","s">>,
      <<"s","e","e","s">>, <<"e","a","t","s">>, <<"g","i","v","e","s">>,
      <<"u","s","e","s">>, <<"f","i","n","d","s">>, <<"t","e","l","l","s">>,
      <<"l","o","o","k","s">>, <<"w","o","r","k","s">>, <<"l","i","v","e","s">>,
      <<"l","o","v","e","s">>, <<"l","i","k","e","s">>, <<"n","e","e","d","s">>,
      <<"w","a","n","t","s">>, <<"c","a","l","l","s">>, <<"a","s","k","s">>,
      <<"p","l","a","y","s">>, <<"m","o","v","e","s">>, <<"c","r","e","a","t","e","s">>,
      <<"s","t","u","d","i","e","s">>, <<"b","u","i","l","d","s">>, <<"l","e","a","r","n","s">> }

irregular_past_verbs ==
    { <<"w","e","n","t">>, <<"s","a","w">>, <<"a","t","e">>, <<"r","a","n">>,
      <<"s","p","o","k","e">>, <<"w","r","o","t","e">>, <<"t","o","o","k">>,
      <<"m","a","d","e">>, <<"b","o","u","g","h","t">>, <<"b","r","o","u","g","h","t">>,
      <<"f","e","l","t">>, <<"t","h","o","u","g","h","t">>, <<"k","n","e","w">>,
      <<"k","e","p","t">>, <<"l","e","f","t">>, <<"l","o","s","t">>, <<"p","a","i","d">>,
      <<"s","a","i","d">>, <<"t","o","l","d">>, <<"f","o","u","n","d">>,
      <<"g","a","v","e">>, <<"c","a","m","e">> }

ed_adjective_exceptions ==
    { <<"t","i","r","e","d">>, <<"e","x","c","i","t","e","d">>, <<"i","n","t","e","r","e","s","t","e","d">>,
      <<"p","l","e","a","s","e","d">>, <<"p","r","e","p","a","r","e","d">>,
      <<"a","d","v","a","n","c","e","d">>, <<"e","x","p","e","r","i","e","n","c","e","d">>,
      <<"r","e","l","a","t","e","d">>, <<"m","a","r","r","i","e","d">>,
      <<"b","e","l","o","v","e","d">>, <<"b","e","l","a","t","e","d">>,
      <<"c","o","n","c","e","r","n","e","d">>, <<"o","p","p","o","s","e","d">>,
      <<"s","u","p","p","o","s","e","d">>, <<"m","i","x","e","d">>, <<"f","i","x","e","d">>,
      <<"l","e","a","r","n","e","d">>, <<"u","s","e","d">>, <<"d","e","t","a","i","l","e","d">>,
      <<"g","i","f","t","e","d">>, <<"h","o","n","o","r","e","d">>, <<"i","n","c","r","e","a","s","e","d">>,
      <<"c","r","e","e","d">> }

pronouns ==
    { <<"i">>, <<"y","o","u">>, <<"h","e">>, <<"s","h","e">>, <<"i","t">>, <<"w","e">>,
      <<"t","h","e","y">> }

possessive_determiners ==
    { <<"m","y">>, <<"y","o","u","r">>, <<"h","i","s">>, <<"h","e","r">>, <<"i","t","s">>,
      <<"o","u","r">>, <<"t","h","e","i","r">> }

connectors ==
    { <<"a","n","d">>, <<"o","r">>, <<"b","u","t">>, <<"s","o">>, <<"y","e","t">>,
      <<"n","o","r">>, <<"a","l","s","o">>, <<"s","t","i","l","l">>, <<"t","h","e","n">> }

modals ==
    { <<"c","a","n">>, <<"c","o","u","l","d">>, <<"m","a","y">>, <<"m","i","g","h","t">>,
      <<"m","u","s","t">>, <<"s","h","a","l","l">>, <<"s","h","o","u","l","d">>,
      <<"w","i","l","l">>, <<"w","o","u","l","d">> }

subordinate_markers ==
    { <<"t","h","a","t">>, <<"w","h","i","c","h">>, <<"w","h","o">>, <<"w","h","o","m">>,
      <<"w","h","o","s","e">>, <<"w","h","e","r","e">>, <<"w","h","e","r","e","v","e","r">>,
      <<"w","h","e","n">>, <<"w","h","e","n","e","v","e","r">>, <<"w","h","i","l","e">>,
      <<"b","e","c","a","u","s","e">>, <<"s","i","n","c","e">>, <<"a","l","t","h","o","u","g","h">>,
      <<"t","h","o","u","g","h">>, <<"w","h","e","r","e","a","s">>, <<"i","f">>,
      <<"b","e","f","o","r","e">>, <<"a","f","t","e","r">>, <<"o","n","c","e">>,
      <<"u","n","t","i","l">>, <<"u","n","l","e","s","s">>, <<"a","s">>,
      <<"t","h","a","n">>, <<"w","h","e","t","h","e","r">> }

auxiliary_markers ==
    { <<"a","m">>, <<"i","s">>, <<"a","r","e">>, <<"w","a","s">>, <<"w","e","r","e">>,
      <<"b","e">>, <<"b","e","e","n">>, <<"b","e","i","n","g">>, <<"h","a","s">>,
      <<"h","a","v","e">>, <<"h","a","d">> }

(***************************************************************************)
(* The whole-text rule and the segmenter                                   *)
(***************************************************************************)
RECURSIVE DoubleSpaceFrom(_, _)
\* the matches of " {2,}" from offset pos on: the scan resumes at the end of
\* each match
DoubleSpaceFrom(s, pos) ==
    LET start == First(pos, Len(s) - 2,
                       [k \in pos..(Len(s) - 2) |-> s[k + 1] = " " /\ s[k + 2] = " "])
    IN  IF start = -1 THEN <<>>
        ELSE LET end   == RunEnd(s, start, {" "})
             IN  <<GrammarIssue("double-space",
                                <<"Multiple consecutive spaces detected.">>,
                                start, end, issue_context(s, start, end))>>
                 \o DoubleSpaceFrom(s, end)

RECURSIVE PairsOfSpacesFrom(_, _)
PairsOfSpacesFrom(s, pos) ==
    LET start == First(pos, Len(s) - 2,
                       [k \in pos..(Len(s) - 2) |-> s[k + 1] = " " /\ s[k + 2] = " "])
    IN  IF start = -1 THEN <<>>
        ELSE <<GrammarIssue("double-space",
                            <<"Multiple consecutive spaces detected.">>,
                            start, start + 2, issue_context(s, start, start + 2))>>
             \o PairsOfSpacesFrom(s, start + 2)

\* find_double_spaces with the pattern " {2}": two spaces a match, not the
\* whole run (a variant that C3_BlankText must tell from it)
find_pairs_of_spaces(s) == PairsOfSpacesFrom(s, 0)

find_double_spaces(s) == DoubleSpaceFrom(s, 0)

RECURSIVE SentenceSpansFrom(_, _)
\* the matches of [^.!?]+(?:[.!?]|$) from offset pos on, each trimmed: a match
\* starts at the first character that is no terminator, runs to the next
\* terminator and takes it in, or runs to the end of the text
SentenceSpansFrom(s, pos) ==
    LET match_start == RunEnd(s, pos, Terminators)
    IN  IF match_start >= Len(s) THEN <<>>
        ELSE LET run         == RunEndNot(s, match_start, Terminators)
                 match_end   == IF run < Len(s) THEN run + 1 ELSE run
                 raw         == Slice(s, match_start, match_end)
                 leading_ws  == LeadingWs(raw)
                 trailing_ws == TrailingWs(raw)
                 start       == match_start + leading_ws
                 end         == match_end - trailing_ws
             IN  IF strip(raw) = <<>> THEN SentenceSpansFrom(s, match_end)
                 ELSE IF start < end
                      THEN <<[start |-> start, end |-> end]>>
                           \o SentenceSpansFrom(s, match_end)
                      ELSE SentenceSpansFrom(s, match_end)

RECURSIVE SpansBeforeTerminatorFrom(_, _)
SpansBeforeTerminatorFrom(s, pos) ==
    LET match_start == RunEnd(s, pos, Terminators)
    IN  IF match_start >= Len(s) THEN <<>>
        ELSE LET run         == RunEndNot(s, match_start, Terminators)
                 match_end   == IF run < Len(s) THEN run + 1 ELSE run
                 raw         == Slice(s, match_start, run)
                 leading_ws  == LeadingWs(raw)
                 trailing_ws == TrailingWs(raw)
                 start       == match_start + leading_ws
                 end         == run - trailing_ws
             IN  IF strip(raw) = <<>> THEN SpansBeforeTerminatorFrom(s, match_end)
                 ELSE IF start < end
                      THEN <<[start |-> start, end |-> end]>>
                           \o SpansBeforeTerminatorFrom(s, match_end)
                      ELSE SpansBeforeTerminatorFrom(s, match_end)

\* sentence_spans with the terminator left out of the span (a variant that
\* C9_TerminatorIncluded must tell from it)
sentence_spans_before_terminator(s) == SpansBeforeTerminatorFrom(s, 0)

sentence_spans(s) == SentenceSpansFrom(s, 0)

(***************************************************************************)
(* The sentence rules                                                      *)
(***************************************************************************)
check_sentence_capitalization(sentence, offset) ==
    LET stripped   == lstrip(sentence)
        leading_ws == Len(sentence) - Len(stripped)
    IN  IF stripped = <<>> THEN <<>>
        ELSE IF isalpha(stripped[1]) /\ ~isupper(stripped[1])
             THEN <<GrammarIssue("capitalization",
                                 <<"Sentence should start with a capital letter.">>,
                                 offset + leading_ws, offset + leading_ws + 1,
                                 issue_context(sentence, leading_ws, leading_ws + 1))>>
             ELSE <<>>

\* check_sentence_punctuation without the stripping of closing characters (a
\* variant that C5_Punctuation must tell from it)
check_sentence_punctuation_no_closers(sentence, offset) ==
    LET stripped    == rstrip(sentence)
        trailing_ws == Len(sentence) - Len(stripped)
        end         == offset + Len(sentence) - trailing_ws
    IN  IF stripped = <<>> THEN <<>>
        ELSE IF stripped[Len(stripped)] \notin Terminators
             THEN <<GrammarIssue("punctuation",
                                 <<"Sentence should end with terminal punctuation.">>,
                                 end - 1, end,
                                 issue_context(sentence, 0, Len(sentence) - trailing_ws))>>
             ELSE <<>>

check_sentence_punctuation(sentence, offset) ==
    LET stripped    == rstrip(sentence)
        trailing_ws == Len(sentence) - Len(stripped)
        core        == rstripchars(stripped, ClosingChars)
        end         == offset + Len(sentence) - trailing_ws
    IN  IF stripped = <<>> THEN <<>>
        ELSE IF core = <<>> THEN <<>>
        ELSE IF core[Len(core)] \notin Terminators
             THEN <<GrammarIssue("punctuation",
                                 <<"Sentence should end with terminal punctuation.">>,
                                 end - 1, end,
                                 issue_context(sentence, 0, Len(sentence) - trailing_ws))>>
             ELSE <<>>

\* sentence[p:p+Len(g)] equals g, ignoring case (the backreference \1 under
\* re.IGNORECASE)
MatchesAt(s, p, g) ==
    /\ p + Len(g) <= Len(s)
    /\ \A i \in 1..Len(g) : lowerchar(s[p + i]) = lowerchar(g[i])

\* RepetitionsEnd for the pattern \b([A-Za-z']+)\b(\s+\1\b): one repetition,
\* not one or more (a variant that C6_RepeatedWordRun must tell from it)
RepetitionsEndOnce(s, p, g) ==
    LET q == RunEnd(s, p, Whitespace)
    IN  IF q > p /\ MatchesAt(s, q, g) /\ WordBoundary(s, q + Len(g))
        THEN q + Len(g)
        ELSE p

RECURSIVE RepetitionsEnd(_, _, _)
\* the end of the greedy (\s+\1\b)* from offset p on
RepetitionsEnd(s, p, g) ==
    LET q == RunEnd(s, p, Whitespace)
    IN  IF q > p /\ MatchesAt(s, q, g) /\ WordBoundary(s, q + Len(g))
        THEN RepetitionsEnd(s, q + Len(g), g)
        ELSE p

\* the lengths n for which \b([A-Za-z']+)\b(\s+\1\b)+ matches at offset p with
\* a first group of n characters
GroupLengths(s, p) ==
    {n \in 1..(RunEnd(s, p, TokenChars) - p) :
        /\ WordBoundary(s, p + n)
        /\ RepetitionsEnd(s, p + n, Slice(s, p, p + n)) > p + n}

RECURSIVE RepeatedWordFrom(_, _, _)
\* the matches of _repeated_word_pattern from offset pos on: the leftmost
\* offset where the pattern matches, its longest first group, then the scan
\* resumes at the end of the match
RepeatedWordFrom(s, pos, offset) ==
    LET start == First(pos, Len(s) - 1,
                       [p \in pos..(Len(s) - 1) |->
                           WordBoundary(s, p) /\ GroupLengths(s, p) # {}])
    IN  IF start = -1 THEN <<>>
        ELSE LET lens  == GroupLengths(s, start)
                 n     == CHOOSE k \in lens : \A j \in lens : j <= k
                 word  == Slice(s, start, start + n)
                 end   == RepetitionsEnd(s, start + n, word)
             IN  <<GrammarIssue("repeated-word",
                                <<"Repeated word '">> \o word \o <<"'.">>,
                                offset + start, offset + end,
                                issue_context(s, start, end))>>
                 \o RepeatedWordFrom(s, end, offset)

check_repeated_words(sentence, offset) == RepeatedWordFrom(sentence, 0, offset)

\* re.findall(r"\b\w+\b", sentence): the maximal runs of \w characters
WordCount(s) ==
    Cardinality({p \in 0..(Len(s) - 1) :
                    s[p + 1] \in WordChars /\ (p = 0 \/ s[p] \notin WordChars)})

\* check_sentence_length with a span that ends one character too far (a
\* variant that C1_SpanWithinText must tell from it)
check_sentence_length_end_off_by_one(sentence, offset) ==
    IF WordCount(sentence) > long_sentence_limit
    THEN <<GrammarIssue("long-sentence",
                        <<"Sentence is long and may be a run-on.">>,
                        offset, offset + Len(sentence) + 1,
                        issue_context(sentence, 0, Len(sentence)))>>
    ELSE <<>>

\* check_sentence_length with len(words) >= 40 (a variant that
\* C7_LongSentence must tell from it)
check_sentence_length_at_limit(sentence, offset) ==
    IF WordCount(sentence) >= long_sentence_limit
    THEN <<GrammarIssue("long-sentence",
                        <<"Sentence is long and may be a run-on.">>,
                        offset, offset + Len(sentence),
                        issue_context(sentence, 0, Len(sentence)))>>
    ELSE <<>>

check_sentence_length(sentence, offset) ==
    IF WordCount(sentence) > long_sentence_limit
    THEN <<GrammarIssue("long-sentence",
                        <<"Sentence is long and may be a run-on.">>,
                        offset, offset + Len(sentence),
                        issue_context(sentence, 0, Len(sentence)))>>
    ELSE <<>>

(***************************************************************************)
(* The verb-tense rule                                                     *)
(***************************************************************************)
\* the absent previous content word (None)
None == <<>>

\* the lengths n for which \b[A-Za-z']+\b matches n characters at offset p
TokenLengths(s, p) ==
    IF ~WordBoundary(s, p) THEN {}
    ELSE {n \in 1..(RunEnd(s, p, TokenChars) - p) : WordBoundary(s, p + n)}

RECURSIVE TokensFrom(_, _)
\* the matches of \b[A-Za-z']+\b from offset pos on: the leftmost offset
\* where a token starts, its longest length, then the scan resumes at its end
TokensFrom(s, pos) ==
    LET start == First(pos, Len(s) - 1,
                       [p \in pos..(Len(s) - 1) |-> TokenLengths(s, p) # {}])
    IN  IF start = -1 THEN <<>>
        ELSE LET lens  == TokenLengths(s, start)
                 n     == CHOOSE k \in lens : \A j \in lens : j <= k
             IN  <<[start |-> start, end |-> start + n]>> \o TokensFrom(s, start + n)

Tokens(s) == TokensFrom(s, 0)

\* match.group(0) of every token
TokenWords(s) ==
    LET tokens == Tokens(s)
    IN  [i \in 1..Len(tokens) |-> Slice(s, tokens[i].start, tokens[i].end)]

skip_words == connectors \cup {<<"t","h","e">>, <<"a">>, <<"a","n">>}

RECURSIVE PreviousContentWordFrom(_, _, _)
\* the while loop of _previous_content_word from token j down, with
\* `remaining` content words still to take
PreviousContentWordFrom(words, j, remaining) ==
    IF j < 1 THEN None
    ELSE LET candidate == lower(words[j])
         IN  IF candidate \in skip_words
             THEN PreviousContentWordFrom(words, j - 1, remaining)
             ELSE IF remaining = 1 THEN candidate
             ELSE PreviousContentWordFrom(words, j - 1, remaining - 1)

\* words are the tokens' texts; index counts from 1 (the source's index + 1)
previous_content_word(words, index, steps) ==
    PreviousContentWordFrom(words, index - 1, steps)

is_part_of_perfect_or_passive(words, index) ==
    \E j \in Max(1, index - 5)..(index - 1) :
        LET candidate == lower(words[j])
        IN  /\ ~(candidate \in connectors
                   \/ candidate \in {<<"t","h","e">>, <<"a">>, <<"a","n">>})
            /\ (candidate \in auxiliary_markers \/ candidate = <<"t","o">>)

is_present_marker(word, words, index) ==
    LET prev == previous_content_word(words, index, 1)
    IN  IF word \in present_auxiliaries
        THEN ~(word \in {<<"h","a","s">>, <<"h","a","v","e">>}
                 /\ prev \in {<<"t","h","e","r","e">>})
        ELSE IF word \in present_s_verbs
        THEN IF prev \in possessive_determiners THEN FALSE
             ELSE prev # <<"t","o">>
        ELSE IF word \in present_base_verbs
        THEN IF prev \in pronouns THEN TRUE
             ELSE IF prev \in {<<"t","o">>, <<"d","o","e","s">>, <<"d","o">>}
             THEN FALSE
             ELSE IF prev \in modals \/ prev \in auxiliary_markers THEN FALSE
             ELSE LET determiner ==
                          prev \in {<<"t","h","e">>, <<"a">>, <<"a","n">>,
                                    <<"t","h","i","s">>, <<"t","h","a","t">>,
                                    <<"t","h","e","s","e">>, <<"t","h","o","s","e">>}
                      prev2 == IF determiner
                               THEN previous_content_word(words, index, 2)
                               ELSE prev
                  IN  IF determiner /\ prev2 \in possessive_determiners THEN FALSE
                      ELSE IF prev2 # None /\ isupper(prev2[1]) THEN TRUE
                      ELSE IF prev2 # None /\ prev2 \notin connectors
                              /\ prev2 \notin pronouns
                      THEN TRUE
                      ELSE FALSE
        ELSE FALSE

\* word.endswith("ed")
EndsWithEd(word) ==
    Len(word) >= 2 /\ word[Len(word) - 1] = "e" /\ word[Len(word)] = "d"

is_past_marker(word, words, index) ==
    LET prev == previous_content_word(words, index, 1)
    IN  IF word \in past_auxiliaries THEN TRUE
        ELSE IF word \in irregular_past_verbs
        THEN IF word = <<"f","o","u","n","d">> /\ prev = <<"n","e","w","l","y">>
             THEN FALSE
             ELSE IF prev \in subordinate_markers THEN FALSE
             ELSE TRUE
        ELSE IF EndsWithEd(word) /\ Len(word) > 3
                /\ word \notin ed_adjective_exceptions
        THEN IF is_part_of_perfect_or_passive(words, index) THEN FALSE
             ELSE IF prev \in subordinate_markers THEN FALSE
             ELSE TRUE
        ELSE FALSE

\* markers_in_same_clause without the look at the tokens between the markers
\* (a variant that C4_ClauseBoundary must tell from it)
markers_always_in_same_clause(words, first_index, second_index) == TRUE

markers_in_same_clause(words, first_index, second_index) ==
    LET low  == Min(first_index, second_index)
        high == Max(first_index, second_index)
    IN  \A i \in (low + 1)..(high - 1) : lower(words[i]) \notin subordinate_markers

\* the indexes of the present markers, in token order
PresentMarkers(words) ==
    SelectSeq([i \in 1..Len(words) |-> i],
              LAMBDA i : is_present_marker(lower(words[i]), words, i))

\* the indexes of the past markers (the elif branch), in token order
PastMarkers(words) ==
    SelectSeq([i \in 1..Len(words) |-> i],
              LAMBDA i : /\ ~is_present_marker(lower(words[i]), words, i)
                         /\ is_past_marker(lower(words[i]), words, i))

RECURSIVE ScanPairs(_, _, _, _, _)
\* the nested loops over past_markers (outer) and present_markers (inner):
\* the first pair in the same clause, or None
ScanPairs(words, past, present, i, j) ==
    IF i > Len(past) THEN None
    ELSE IF j > Len(present) THEN ScanPairs(words, past, present, i + 1, 1)
    ELSE IF markers_in_same_clause(words, past[i], present[j])
         THEN <<past[i], present[j]>>
         ELSE ScanPairs(words, past, present, i, j + 1)

\* check_verb_tense with a span from the past marker to the present marker,
\* as if the past marker always came first (a variant that C10_FirstPair must
\* tell from it)
check_verb_tense_past_first(sentence, offset) ==
    LET tokens  == Tokens(sentence)
        words   == TokenWords(sentence)
        present_markers == PresentMarkers(words)
        past_markers    == PastMarkers(words)
        pair    == ScanPairs(words, past_markers, present_markers, 1, 1)
    IN  IF Len(tokens) < 2 THEN <<>>
        ELSE IF present_markers = <<>> \/ past_markers = <<>> THEN <<>>
        ELSE IF pair = None THEN <<>>
        ELSE LET issue_start == tokens[pair[1]].start
                 issue_end   == Max(tokens[pair[1]].end, tokens[pair[2]].end)
             IN  <<GrammarIssue("verb-tense",
                                <<"Sentence mixes past and present tense verbs.">>,
                                offset + issue_start, offset + issue_end,
                                issue_context(sentence, issue_start, issue_end))>>

check_verb_tense(sentence, offset) ==
    LET tokens  == Tokens(sentence)
        words   == TokenWords(sentence)
        present_markers == PresentMarkers(words)
        past_markers    == PastMarkers(words)
        pair    == ScanPairs(words, past_markers, present_markers, 1, 1)
    IN  IF Len(tokens) < 2 THEN <<>>
        ELSE IF present_markers = <<>> \/ past_markers = <<>> THEN <<>>
        ELSE IF pair = None THEN <<>>
        ELSE LET past_match    == tokens[pair[1]]
                 present_match == tokens[pair[2]]
                 issue_start   == Min(past_match.start, present_match.start)
                 issue_end     == Max(past_match.end, present_match.end)
             IN  <<GrammarIssue("verb-tense",
                                <<"Sentence mixes past and present tense verbs.">>,
                                offset + issue_start, offset + issue_end,
                                issue_context(sentence, issue_start, issue_end))>>

(***************************************************************************)
(* sorted(issues, key=lambda issue: issue.start): a stable sort            *)
(***************************************************************************)
RECURSIVE InsertBeforeEqual(_, _)
\* InsertByStart for a sort that is not stable: x goes before the elements of
\* equal start (a variant that C2_StableSortByStart must tell from it)
InsertBeforeEqual(sorted, x) ==
    IF sorted = <<>> THEN <<x>>
    ELSE IF sorted[Len(sorted)].start < x.start THEN Append(sorted, x)
    ELSE Append(InsertBeforeEqual(SubSeq(sorted, 1, Len(sorted) - 1), x),
                sorted[Len(sorted)])

RECURSIVE InsertByStart(_, _)
\* x goes after every element whose start is not greater than its own
InsertByStart(sorted, x) ==
    IF sorted = <<>> THEN <<x>>
    ELSE IF sorted[Len(sorted)].start <= x.start THEN Append(sorted, x)
    ELSE Append(InsertByStart(SubSeq(sorted, 1, Len(sorted) - 1), x),
                sorted[Len(sorted)])

RECURSIVE SortedByStart(_)
SortedByStart(list) ==
    IF list = <<>> THEN <<>>
    ELSE InsertByStart(SortedByStart(SubSeq(list, 1, Len(list) - 1)),
                       list[Len(list)])

(***************************************************************************)
(* The inputs: the texts check is called with                              *)
(***************************************************************************)
\* the longest text spelled character by character
MaxLen == 4

\* the most words of a text built from the vocabulary
MaxWords == 4

\* how far the word counts of the long texts range around the limit
Slack == 2

ShortAlphabet == {"a", "A", " ", ".", ")", "'", "\n"}

RECURSIVE SeqsUpTo(_, _)
\* the sequences over S of length at most n
SeqsUpTo(S, n) ==
    IF n = 0 THEN {<<>>}
    ELSE LET shorter == SeqsUpTo(S, n - 1)
         IN  shorter \cup {Append(s, x) : s \in shorter, x \in S}

ShortTexts == SeqsUpTo(ShortAlphabet, MaxLen)

Vocabulary ==
    { <<"w","a","s">>, <<"i","s">>, <<"b","e","c","a","u","s","e">>,
      <<"w","a","l","k","s">>, <<"a">>, <<"a","'","a">>, <<"a","1">>,
      <<".">> }

RECURSIVE Join(_)
\* " ".join(words)
Join(words) ==
    IF words = <<>> THEN <<>>
    ELSE IF Len(words) = 1 THEN words[1]
    ELSE words[1] \o <<" ">> \o Join(Tail(words))

WordTexts == {Join(ws) : ws \in SeqsUpTo(Vocabulary, MaxWords)}

RECURSIVE Filler(_)
\* n words, "ab" and "cd" in turn, each followed by a space
Filler(n) ==
    IF n = 0 THEN <<>>
    ELSE Filler(n - 1)
         \o (IF n % 2 = 1 THEN <<"a","b"," ">> ELSE <<"c","d"," ">>)

Heads == { <<>>, <<"O","k","."," ">>, <<"\n">> }

Middles ==
    { <<>>, <<" ">>, <<"\n"," "," ">>, <<"i","s"," ","a"," ","w","a","s"," ","i","s"," ">>,
      <<"\n","X"," ","x"," ","x"," ">> }

Tails == { <<"x">>, <<"x",")">>, <<"x",".">>, <<"x","."," ","y">> }

\* texts with one sentence of about long_sentence_limit words
LongTexts ==
    LET half == long_sentence_limit \div 2
    IN  { head \o Filler(half) \o middle \o Filler(n) \o tail :
            head \in Heads, middle \in Middles, tail \in Tails,
            n \in (half - Slack)..(half + Slack) }

(***************************************************************************)
(* The texts of tests/test_grammar_checker.py                              *)
(***************************************************************************)
\* test_detects_repeated_words
text_repeated_words ==
    <<"T","h","i","s"," ","i","s"," ","i","s"," ","a"," ","m","i","s","t","a",
      "k","e",".">>

\* test_requires_sentence_punctuation
text_without_punctuation ==
    <<"T","h","i","s"," ","i","s"," ","a"," ","s","e","n","t","e","n","c","e",
      " ","w","i","t","h","o","u","t"," ","p","u","n","c","t","u","a","t","i",
      "o","n">>

\* test_requires_sentence_capitalization
text_without_capital ==
    <<"t","h","i","s"," ","s","e","n","t","e","n","c","e"," ","s","t","a","r",
      "t","s"," ","i","n","c","o","r","r","e","c","t","l","y",".">>

\* test_allows_clean_sentence
text_clean ==
    <<"T","h","i","s"," ","s","e","n","t","e","n","c","e"," ","i","s"," ","c",
      "o","r","r","e","c","t",".">>

\* test_detects_long_sentence
text_long_sentence ==
    <<"T","h","i","s"," ","s","e","n","t","e","n","c","e"," ","c","o","n","t",
      "a","i","n","s"," ","m","a","n","y"," ","c","l","a","u","s","e","s"," ",
      "a","n","d"," ","k","e","e","p","s"," ","g","o","i","n","g"," ","w","i",
      "t","h","o","u","t"," ","p","a","u","s","e"," ","w","h","i","c","h"," ",
      "m","a","k","e","s"," ","i","t"," ","d","i","f","f","i","c","u","l","t",
      " ","t","o"," ","r","e","a","d"," ","a","n","d"," ","l","i","k","e","l",
      "y"," ","s","i","g","n","a","l","s"," ","a"," ","r","u","n"," ","o","n",
      " ","s","e","n","t","e","n","c","e"," ","b","e","c","a","u","s","e"," ",
      "i","t"," ","l","a","c","k","s"," ","p","r","o","p","e","r"," ","p","u",
      "n","c","t","u","a","t","i","o","n"," ","a","n","d"," ","c","o","n","t",
      "i","n","u","e","s"," ","t","o"," ","a","c","c","u","m","u","l","a","t",
      "e"," ","w","o","r","d","s"," ","b","e","y","o","n","d"," ","w","h","a",
      "t"," ","a"," ","r","e","a","d","e","r"," ","c","a","n"," ","c","o","m",
      "f","o","r","t","a","b","l","y"," ","p","a","r","s","e"," ","w","i","t",
      "h","o","u","t"," ","h","e","l","p",".">>

\* test_double_spaces
text_double_spaces ==
    <<"T","h","i","s"," "," ","s","e","n","t","e","n","c","e"," ","h","a","s",
      " ","d","o","u","b","l","e"," ","s","p","a","c","e","s",".">>

\* two sentences with "was" and "is": split by "because", then not split
text_two_clauses ==
    <<"I","t"," ","w","a","s"," ","l","a","t","e"," ","b","e","c","a","u","s",
      "e"," ","i","t"," ","i","s"," ","f","a","r","."," ","I","t"," ","w","a",
      "s"," ","l","a","t","e"," ","a","n","d"," ","i","t"," ","i","s"," ","f",
      "a","r",".">>

TestTexts ==
    { text_repeated_words,
      text_without_punctuation,
      text_without_capital,
      text_clean,
      text_long_sentence,
      text_double_spaces,
      text_two_clauses }

Texts == ShortTexts \cup WordTexts \cup LongTexts \cup TestTexts

(***************************************************************************)
(* check(text), one step per call it makes                                 *)
(***************************************************************************)
Init ==
    /\ text \in Texts
    /\ pc = "double_spaces"
    /\ issues = <<>>
    /\ sentences = <<>>
    /\ idx = 0
    /\ result = <<>>

\* the sentence of the loop: text[start:end]
Sentence == Slice(text, sentences[idx].start, sentences[idx].end)

Offset == sentences[idx].start

\* issues.extend(self._find_double_spaces(text))
FindDoubleSpaces ==
    /\ pc = "double_spaces"
    /\ issues' = issues \o find_double_spaces(text)
    /\ pc' = "spans"
    /\ UNCHANGED <<text, sentences, idx, result>>

\* sentences = list(self._sentence_spans(text))
SentenceSpans ==
    /\ pc = "spans"
    /\ sentences' = sentence_spans(text)
    /\ idx' = 0
    /\ pc' = "for"
    /\ UNCHANGED <<text, issues, result>>

\* for start, end in sentences: ... if not stripped_sentence: continue
NextSentence ==
    /\ pc = "for"
    /\ idx < Len(sentences)
    /\ idx' = idx + 1
    /\ pc' = IF strip(Slice(text, sentences[idx + 1].start, sentences[idx + 1].end)) = <<>>
             THEN "for"
             ELSE "capitalization"
    /\ UNCHANGED <<text, issues, sentences, result>>

CheckSentenceCapitalization ==
    /\ pc = "capitalization"
    /\ issues' = issues \o check_sentence_capitalization(Sentence, Offset)
    /\ pc' = "punctuation"
    /\ UNCHANGED <<text, sentences, idx, result>>

CheckSentencePunctuation ==
    /\ pc = "punctuation"
    /\ issues' = issues \o check_sentence_punctuation(Sentence, Offset)
    /\ pc' = "repeated_words"
    /\ UNCHANGED <<text, sentences, idx, result>>

CheckRepeatedWords ==
    /\ pc = "repeated_words"
    /\ issues' = issues \o check_repeated_words(Sentence, Offset)
    /\ pc' = "length"
    /\ UNCHANGED <<text, sentences, idx, result>>

CheckSentenceLength ==
    /\ pc = "length"
    /\ issues' = issues \o check_sentence_length(Sentence, Offset)
    /\ pc' = "verb_tense"
    /\ UNCHANGED <<text, sentences, idx, result>>

CheckVerbTense ==
    /\ pc = "verb_tense"
    /\ issues' = issues \o check_verb_tense(Sentence, Offset)
    /\ pc' = "for"
    /\ UNCHANGED <<text, sentences, idx, result>>

\* return sorted(issues, key=lambda issue: issue.start)
ReturnSorted ==
    /\ pc = "for"
    /\ idx = Len(sentences)
    /\ result' = SortedByStart(issues)
    /\ pc' = "done"
    /\ UNCHANGED <<text, issues, sentences, idx>>

Next ==
    \/ FindDoubleSpaces
    \/ SentenceSpans
    \/ NextSentence
    \/ CheckSentenceCapitalization
    \/ CheckSentencePunctuation
    \/ CheckRepeatedWords
    \/ CheckSentenceLength
    \/ CheckVerbTense
    \/ ReturnSorted

Spec == Init /\ [][Next]_vars

(***************************************************************************)
(* Properties                                                              *)
(***************************************************************************)
Done == pc = "done"

\* the indexes of the returned issues of a rule that start within sentence k
IssuesIn(rule, k) ==
    {i \in 1..Len(result) :
        /\ result[i].rule = rule
        /\ sentences[k].start <= result[i].start
        /\ result[i].start < sentences[k].end}

SentenceRules ==
    {"capitalization", "punctuation", "repeated-word", "long-sentence", "verb-tense"}

\* C1: every issue check(text) returns, of whichever rule, satisfies
\* 0 <= start <= end <= len(text); so does every issue collected on the way.
C1_SpanWithinText ==
    /\ \A i \in 1..Len(issues) :
          /\ 0 <= issues[i].start
          /\ issues[i].start <= issues[i].end
          /\ issues[i].end <= Len(text)
    /\ \A i \in 1..Len(result) :
          /\ 0 <= result[i].start
          /\ result[i].start <= result[i].end
          /\ result[i].end <= Len(text)

\* a returned list with issues of four rules or more, one of them a
\* double-space issue, one an issue of a sentence rule that ends at the end of
\* the text in a sentence that does not start the text
C1_Witness ==
    /\ Done
    /\ \E i, j \in 1..Len(result) :
          /\ result[i].rule \in SentenceRules
          /\ result[i].end = Len(text)
          /\ result[i].start > 0
          /\ result[j].rule = "double-space"
    /\ Len(sentences) >= 2
    /\ Cardinality({result[i].rule : i \in 1..Len(result)}) >= 4

\* the place of a rule in the order check calls the rules
RuleOrder(rule) ==
    CASE rule = "double-space"   -> 0
      [] rule = "capitalization" -> 1
      [] rule = "punctuation"    -> 2
      [] rule = "repeated-word"  -> 3
      [] rule = "long-sentence"  -> 4
      [] rule = "verb-tense"     -> 5

\* the sentence an issue was found in (0 for the whole-text rule)
SentenceOf(issue) ==
    IF issue.rule = "double-space" THEN 0
    ELSE CHOOSE k \in 1..Len(sentences) :
             sentences[k].start <= issue.start /\ issue.start < sentences[k].end

\* issue a was collected before issue b
CollectedBefore(a, b) ==
    \/ SentenceOf(a) < SentenceOf(b)
    \/ SentenceOf(a) = SentenceOf(b) /\ RuleOrder(a.rule) < RuleOrder(b.rule)
    \/ SentenceOf(a) = SentenceOf(b) /\ a.rule = b.rule /\ a.start < b.start

\* C2: the returned list holds the collected issues (the double-space issues,
\* then sentence by sentence the issues of capitalization, punctuation,
\* repeated-word, long-sentence, verb-tense), in non-decreasing order of start,
\* two issues of equal start in the order they were collected.
C2_StableSortByStart ==
    Done =>
      /\ \A i, j \in 1..Len(issues) : i < j => CollectedBefore(issues[i], issues[j])
      /\ Len(result) = Len(issues)
      /\ {result[i] : i \in 1..Len(result)} = {issues[i] : i \in 1..Len(issues)}
      /\ \A i, j \in 1..Len(result) :
            i < j =>
              \/ result[i].start < result[j].start
              \/ /\ result[i].start = result[j].start
                 /\ CollectedBefore(result[i], result[j])

\* the sort moved an issue, and two returned issues start at the same offset
C2_Witness ==
    /\ Done
    /\ result # issues
    /\ \E i \in 1..(Len(result) - 1) : result[i].start = result[i + 1].start

\* C3 as stated: check("") and check("   ") return an empty list.
C3_EmptyOnBlank ==
    (Done /\ text \in {<<>>, <<" ", " ", " ">>}) => result = <<>>

\* the maximal runs of two or more spaces of the text, as (start, end)
SpaceRuns ==
    {<<a, b>> \in (0..Len(text)) \X (0..Len(text)) :
        /\ a + 2 <= b
        /\ \A p \in a..(b - 1) : text[p + 1] = " "
        /\ (a = 0 \/ text[a] # " ")
        /\ (b = Len(text) \/ text[b + 1] # " ")}

\* C3, amended: check("") returns an empty list; check("   ") returns exactly
\* one issue, the double-space issue spanning offsets 0..3; on a text of
\* whitespace only there is no sentence, no sentence rule reports an issue,
\* and the returned issues are the double-space issues of its runs of spaces.
C3_BlankText ==
    (Done /\ \A p \in 1..Len(text) : text[p] \in Whitespace) =>
      /\ sentences = <<>>
      /\ \A i \in 1..Len(result) : result[i].rule = "double-space"
      /\ {<<result[i].start, result[i].end>> : i \in 1..Len(result)} = SpaceRuns
      /\ Len(result) = Cardinality(SpaceRuns)
      /\ text = <<>> => result = <<>>
      /\ text = <<" ", " ", " ">> =>
            /\ Len(result) = 1
            /\ result[1].rule = "double-space"
            /\ result[1].start = 0
            /\ result[1].end = 3

\* check("   ") has returned its one double-space issue
C3_Witness ==
    /\ Done
    /\ text = <<" ", " ", " ">>
    /\ Len(result) = 1
    /\ result[1].rule = "double-space"

\* the segmenter has run
Segmented == pc \notin {"double_spaces", "spans"}

\* C9 as stated: a sentence span (start, end) excludes its terminator: the
\* character text[end-1] is no terminator, and the terminator that ended the
\* sentence, if one did, is at text[end].
C9_TerminatorExcluded ==
    Segmented =>
      \A k \in 1..Len(sentences) :
        LET end == sentences[k].end
        IN  /\ text[end] \notin Terminators
            /\ (\E p \in (end - 1)..(Len(text) - 1) : text[p + 1] \in Terminators)
                  => (end < Len(text) /\ text[end + 1] \in Terminators)

\* C9, amended: a sentence span (start, end) includes its own terminator: the
\* span is not empty, lies within the text, starts and ends on a character
\* that is no whitespace, and holds no terminator before its last character;
\* either its last character text[end-1] is the . ! or ? that ended the
\* sentence, or the sentence was ended by the end of the text, and nothing
\* but whitespace follows it.  The spans are in text order and do not overlap.
C9_TerminatorIncluded ==
    Segmented =>
      /\ \A k \in 1..Len(sentences) :
            LET start == sentences[k].start
                end   == sentences[k].end
            IN  /\ 0 <= start /\ start < end /\ end <= Len(text)
                /\ text[start + 1] \notin Whitespace
                /\ text[end] \notin Whitespace
                /\ \A p \in start..(end - 2) : text[p + 1] \notin Terminators
                /\ \/ text[end] \in Terminators
                   \/ \A p \in end..(Len(text) - 1) : text[p + 1] \in Whitespace
      /\ \A k \in 1..(Len(sentences) - 1) : sentences[k].end <= sentences[k + 1].start

\* a sentence ended by a terminator, its span ending just after the terminator,
\* followed by another sentence
C9_Witness ==
    /\ Segmented
    /\ Len(sentences) >= 2
    /\ text[sentences[1].end] \in Terminators
    /\ sentences[1].end - sentences[1].start >= 2

\* sentence k as a string, and what the verb-tense rule sees of it
SentenceText(k) == Slice(text, sentences[k].start, sentences[k].end)

Range(seq) == {seq[i] : i \in 1..Len(seq)}

Was == <<"w","a","s">>

Is == <<"i","s">>

\* a subordinate marker lies strictly between tokens p and q of words
MarkerBetween(words, p, q) ==
    \E m \in 1..Len(words) :
        /\ Min(p, q) < m /\ m < Max(p, q)
        /\ lower(words[m]) \in subordinate_markers

\* sentence k has one past marker, a "was", and one present marker, an "is"
OnlyWasAndIs(k) ==
    LET words == TokenWords(SentenceText(k))
        past    == Range(PastMarkers(words))
        present == Range(PresentMarkers(words))
    IN  /\ Cardinality(past) = 1
        /\ Cardinality(present) = 1
        /\ \A p \in past : lower(words[p]) = Was
        /\ \A q \in present : lower(words[q]) = Is

\* C4: in a sentence whose only tense markers are a "was" and an "is", check
\* emits no verb-tense issue when a subordinate marker lies strictly between
\* the two tokens, and exactly one verb-tense issue when none does.
C4_ClauseBoundary ==
    Done =>
      \A k \in 1..Len(sentences) :
        OnlyWasAndIs(k) =>
          LET words == TokenWords(SentenceText(k))
              p == PastMarkers(words)[1]
              q == PresentMarkers(words)[1]
          IN  Cardinality(IssuesIn("verb-tense", k))
                = IF MarkerBetween(words, p, q) THEN 0 ELSE 1

\* a text of two such sentences: "because" between the markers of the first,
\* which gets no verb-tense issue, and none in the second, which gets one
C4_Witness ==
    /\ Done
    /\ Len(sentences) = 2
    /\ OnlyWasAndIs(1)
    /\ OnlyWasAndIs(2)
    /\ <<"b","e","c","a","u","s","e">> \in Range(TokenWords(SentenceText(1)))
    /\ IssuesIn("verb-tense", 1) = {}
    /\ Cardinality(IssuesIn("verb-tense", 2)) = 1

\* the offsets in the text of the characters of sentence k that are left
\* after trimming trailing whitespace and then trailing closing characters
CoreOffsets(k) ==
    {p \in sentences[k].start..(sentences[k].end - 1) :
        \E q \in p..(sentences[k].end - 1) :
            /\ text[q + 1] \notin ClosingChars
            /\ \E r \in q..(sentences[k].end - 1) : text[r + 1] \notin Whitespace}

\* the offset of the last character of sentence k that is no whitespace
LastOffset(k) ==
    CHOOSE p \in sentences[k].start..(sentences[k].end - 1) :
        /\ text[p + 1] \notin Whitespace
        /\ \A r \in (p + 1)..(sentences[k].end - 1) : text[r + 1] \in Whitespace

\* C5: the punctuation rule emits exactly one issue for a sentence whose last
\* character, after trimming trailing whitespace and then trailing closing
\* quotes and parentheses, is not one of . ! ?; the issue spans the last
\* character of the sentence that is no whitespace.  It emits none when that
\* character is a terminator, or when nothing is left after trimming.  A text
\* without terminal punctuation (with a character that is neither whitespace
\* nor a closing character) gets a punctuation issue.
C5_Punctuation ==
    Done =>
      /\ \A k \in 1..Len(sentences) :
            LET core == CoreOffsets(k)
                last == CHOOSE p \in core : \A r \in core : r <= p
                found == IssuesIn("punctuation", k)
            IN  IF core # {} /\ text[last + 1] \notin Terminators
                THEN /\ Cardinality(found) = 1
                     /\ \A i \in found :
                           /\ result[i].start = LastOffset(k)
                           /\ result[i].end = LastOffset(k) + 1
                           /\ result[i].end - result[i].start = 1
                ELSE found = {}
      /\ \A i \in 1..Len(result) :
            result[i].rule = "punctuation" =>
              \E k \in 1..Len(sentences) : i \in IssuesIn("punctuation", k)
      /\ ( /\ \A p \in 1..Len(text) : text[p] \notin Terminators
           /\ \E p \in 1..Len(text) : text[p] \notin Whitespace \cup ClosingChars )
         => \E i \in 1..Len(result) : result[i].rule = "punctuation"

\* a punctuation issue on a closing character that follows a character that is
\* no terminator, and beside it a sentence that ends properly and has none
C5_Witness ==
    /\ Done
    /\ \E i \in 1..Len(result) :
          /\ result[i].rule = "punctuation"
          /\ text[result[i].start + 1] \in ClosingChars
          /\ result[i].start > 0
    /\ \E k \in 1..Len(sentences) : IssuesIn("punctuation", k) = {}

\* A word of the repeated-word rule: a maximal run of ASCII letters with a
\* word boundary on each side.  The offsets where the words of s start:
WordStarts(s) ==
    {a \in 0..(Len(s) - 1) :
        /\ s[a + 1] \in Letters
        /\ WordBoundary(s, a)
        /\ WordBoundary(s, RunEnd(s, a, Letters))}

\* the repeated-word issues check returns for sentence k agree with the runs
\* of repeated words of the sentence: every maximal run of two or more
\* occurrences of a word, equal ignoring case and separated only by
\* whitespace, has exactly one issue overlapping it; the issue spans the run,
\* and its message names the word, in lowercase if `lowercase`, as written if
\* not.
\* The runs whose first word directly follows an apostrophe count only if
\* `after_apostrophe`.
RunsReported(k, after_apostrophe, lowercase) ==
    LET s      == SentenceText(k)
        offset == sentences[k].start
        starts == WordStarts(s)
        wend   == [a \in starts |-> RunEnd(s, a, Letters)]
        \* the word at a and the next word are one word repeated
        linked == {a \in starts :
                     \E b \in starts :
                        /\ wend[a] < b
                        /\ \A p \in wend[a]..(b - 1) : s[p + 1] \in Whitespace
                        /\ lower(Slice(s, a, wend[a])) = lower(Slice(s, b, wend[b]))}
        next   == [a \in linked |-> RunEnd(s, wend[a], Whitespace)]
        first  == {a \in linked : \A b \in linked : next[b] # a}
        \* the end of the run that starts at a: after the last linked word
        last   == [a \in first |->
                     LET tail == {b \in starts \ linked :
                                    /\ b > a
                                    /\ \A c \in starts : (a <= c /\ c < b) => c \in linked
                                    /\ \A p \in a..(b - 1) :
                                          s[p + 1] \in Letters \cup Whitespace}
                     IN  wend[CHOOSE b \in tail : TRUE]]
    IN  \A a \in first :
          (after_apostrophe \/ a = 0 \/ s[a] # "'") =>
            LET found == {r \in 1..Len(result) :
                            /\ result[r].rule = "repeated-word"
                            /\ result[r].start < offset + last[a]
                            /\ offset + a < result[r].end}
            IN  /\ Cardinality(found) = 1
                /\ \A r \in found :
                      /\ result[r].start = offset + a
                      /\ result[r].end = offset + last[a]
                      /\ result[r].message
                           = <<"Repeated word '">> \o (IF lowercase THEN lower(Slice(s, a, wend[a]))
                                   ELSE Slice(s, a, wend[a]))
                               \o <<"'.">>

\* C6 as stated: every run of two or more consecutive occurrences of the same
\* word, ignoring case, separated only by whitespace, yields exactly one
\* repeated-word issue, spanning the run, its message naming the word in
\* lowercase.
C6_LowercaseMessage ==
    Done => \A k \in 1..Len(sentences) : RunsReported(k, TRUE, TRUE)

\* C6 with the message as the source builds it, also for a run whose first
\* word follows an apostrophe
C6_AnyRun ==
    Done => \A k \in 1..Len(sentences) : RunsReported(k, TRUE, FALSE)

\* C6, amended: every run of two or more consecutive occurrences of the same
\* word (a maximal run of ASCII letters with a word boundary on each side),
\* ignoring case, separated only by whitespace, whose first occurrence does not
\* directly follow an apostrophe, yields exactly one repeated-word issue (a
\* run of three is one issue), which spans the run from the start of its
\* first occurrence to the end of its last, in offsets of the text, and whose
\* message names the word as its first occurrence is written, in the case of
\* the text, not in lowercase.
C6_RepeatedWordRun ==
    Done => \A k \in 1..Len(sentences) : RunsReported(k, FALSE, FALSE)

\* one repeated-word issue for a run of three occurrences written in
\* different case, the first with a capital letter, not at the start of the
\* text
C6_Witness ==
    /\ Done
    /\ \E r \in 1..Len(result) :
          /\ result[r].rule = "repeated-word"
          /\ result[r].start > 0
          /\ result[r].end - result[r].start >= 5
          /\ text[result[r].start + 1] \in UpperSet
          /\ Slice(text, result[r].start, result[r].end)
               = <<text[result[r].start + 1], " ", lowerchar(text[result[r].start + 1]),
                   " ", lowerchar(text[result[r].start + 1])>>

\* the number of word tokens of s: the characters that end a run of \w
WordTokens(s) ==
    Cardinality({p \in 1..Len(s) :
                    s[p] \in WordChars /\ (p = Len(s) \/ s[p + 1] \notin WordChars)})

\* C7: a sentence with more than 40 word tokens yields exactly one
\* long-sentence issue, which spans the sentence from its start offset to its
\* end offset; a sentence with 40 word tokens or fewer yields none.
C7_LongSentence ==
    Done =>
      \A k \in 1..Len(sentences) :
        LET found == IssuesIn("long-sentence", k)
        IN  IF WordTokens(SentenceText(k)) > 40
            THEN /\ Cardinality(found) = 1
                 /\ \A i \in found :
                       /\ result[i].start = sentences[k].start
                       /\ result[i].end = sentences[k].end
            ELSE found = {}

\* a sentence of exactly 41 word tokens, not at the start of the text, with
\* its long-sentence issue
C7_Witness ==
    /\ Done
    /\ \E k \in 1..Len(sentences) :
          /\ sentences[k].start > 0
          /\ WordTokens(SentenceText(k)) = 41
          /\ Cardinality(IssuesIn("long-sentence", k)) = 1

\* text[lo:hi] with its newlines replaced by spaces
Window(lo, hi) == [i \in 1..(hi - lo) |-> IF text[lo + i] = "\n" THEN " " ELSE text[lo + i]]

\* C8 as stated: the context of every issue is the window of the text from 30
\* characters before the start of its span to 30 characters after its end,
\* clipped at the boundaries of the text, newlines replaced by spaces.
C8_WindowOfText ==
    Done =>
      \A i \in 1..Len(result) :
        result[i].context
          = Window(Max(0, result[i].start - 30), Min(Len(text), result[i].end + 30))

\* C8, amended: the context of an issue of any rule but punctuation is the
\* window from 30 characters before the start of its span to 30 characters
\* after its end, newlines replaced by spaces, clipped at the boundaries of
\* the string the rule scanned: the text for a double-space issue, the
\* sentence of the issue for the sentence rules.  The context of a punctuation
\* issue is its whole sentence, newlines replaced by spaces, which can hold
\* more than 30 characters before the span.  No context holds more than 30
\* characters after the span, and none but that of a punctuation issue more
\* than 30 before it.
C8_Context ==
    Done =>
      \A i \in 1..Len(result) :
        LET issue == result[i]
            k     == SentenceOf(issue)
            lo    == IF issue.rule = "double-space" THEN 0 ELSE sentences[k].start
            hi    == IF issue.rule = "double-space" THEN Len(text) ELSE sentences[k].end
            from  == IF issue.rule = "punctuation" THEN lo
                     ELSE Max(lo, issue.start - 30)
            to    == Min(hi, issue.end + 30)
        IN  /\ issue.context = Window(from, to)
            /\ to - issue.end <= 30
            /\ issue.rule # "punctuation" => issue.start - from <= 30

\* an issue of a sentence rule other than punctuation with more than 30
\* characters of its sentence on each side and a newline within 30 characters,
\* in a sentence that does not start the text; and a punctuation issue with
\* more than 30 characters of context before it
C8_Witness ==
    /\ Done
    /\ \E i \in 1..Len(result) :
          LET k == SentenceOf(result[i])
          IN  /\ result[i].rule \in SentenceRules \ {"punctuation"}
              /\ sentences[k].start > 0
              /\ result[i].start - sentences[k].start > 30
              /\ sentences[k].end - result[i].end > 30
              /\ Len(result[i].context) = (result[i].end - result[i].start) + 60
              /\ \E p \in (result[i].start - 30)..(result[i].start - 1) :
                    text[p + 1] = "\n"
    /\ \E i \in 1..Len(result) :
          /\ result[i].rule = "punctuation"
          /\ Len(result[i].context) > 31

\* C10: the verb-tense rule emits at most one issue for a sentence.  It emits
\* one when some past marker and some present marker have no subordinate
\* marker strictly between them, and then for the first such pair in the
\* order of the past markers and, for one past marker, of the present
\* markers; the span of the issue runs from the lesser start to the greater
\* end of the two tokens, in offsets of the text.
C10_FirstPair ==
    Done =>
      \A k \in 1..Len(sentences) :
        LET s       == SentenceText(k)
            tokens  == Tokens(s)
            words   == TokenWords(s)
            past    == Range(PastMarkers(words))
            present == Range(PresentMarkers(words))
            pairs   == {pq \in past \X present : ~MarkerBetween(words, pq[1], pq[2])}
            found   == IssuesIn("verb-tense", k)
        IN  IF pairs = {} THEN found = {}
            ELSE LET p == CHOOSE x \in past :
                            /\ \E pq \in pairs : pq[1] = x
                            /\ \A pq \in pairs : x <= pq[1]
                     q == CHOOSE y \in present :
                            /\ <<p, y>> \in pairs
                            /\ \A pq \in pairs : pq[1] = p => y <= pq[2]
                 IN  /\ Cardinality(found) = 1
                     /\ \A i \in found :
                           /\ result[i].start
                                = sentences[k].start + Min(tokens[p].start, tokens[q].start)
                           /\ result[i].end
                                = sentences[k].start + Max(tokens[p].end, tokens[q].end)

\* a sentence, not at the start of the text, whose first pair is not its only
\* pair nor the closest one: the present marker comes first, and a second
\* present marker follows the past marker
C10_Witness ==
    /\ Done
    /\ \E k \in 1..Len(sentences) :
          LET words   == TokenWords(SentenceText(k))
              past    == PastMarkers(words)
              present == PresentMarkers(words)
          IN  /\ sentences[k].start > 0
              /\ Len(past) >= 1
              /\ Len(present) >= 2
              /\ present[1] < past[1] - 1
              /\ present[2] > past[1]
              /\ ~MarkerBetween(words, past[1], present[1])
              /\ Cardinality(IssuesIn("verb-tense", k)) = 1

====
